---- MODULE Spec2Model ----
(***************************************************************************)
(* Password Policy Helper: the validator (src/lib/validator.js), the       *)
(* generator and the fixer (src/lib/generator.js), and the content script  *)
(* (src/unnamed/part_000).                                                 *)
(*                                                                         *)
(* A character is a Unicode code point (an integer); a string is a         *)
(* sequence of code points.  JavaScript strings are sequences of UTF-16    *)
(* code units: UnitsIn gives the code units of a string and JsLength their *)
(* number, so that `password.length` and the regular expressions (which    *)
(* work on code units) are kept apart from `for (const ch of password)`    *)
(* and `[...password]` (which work on code points).                        *)
(***************************************************************************)
EXTENDS Integers, Sequences, FiniteSets, TLC

VARIABLES
    pc,         \* position of the running call
    password,   \* argument of validate / fix
    requested,  \* generate: the length the caller asked for
    length,     \* generate: the parameter `length` (reassigned by the clamp)
    attempt,    \* loop counter of fix / generate
    chars,      \* working array (indices 0..length-1 of the JS array)
    minus1,     \* the property "-1" of the working array (chars[-1])
    counts,     \* working Map<character, count>
    changes,    \* fix: the recorded changes
    violators,  \* tryFix phase 1: violators still to process
    indices,    \* tryFix phase 1: indices of the current violator still to visit
    replaced,   \* tryFix phase 1: replacements done for the current violator
    ci,         \* tryFix phase 2: index into classChecks
    pi,         \* tryFix phase 4: loop index i
    varied,     \* random draws of this attempt that differ from the default draw
    result,     \* the value returned
    tries,      \* generate: random draws made for the current slot
    fields,     \* content script's page: the password fields, by element
    activePasswordField,  \* content script: the field last focused, or Null
    mutations,  \* content script's page: DOM mutations not yet delivered to the observer
    response,   \* content script: what the last message was answered with
    access      \* content script: what the last handler did with field values

\* the content script's state
pageVars == <<fields, activePasswordField, mutations, response, access>>

\* the engine's state
engineVars == <<password, requested, length, attempt, chars, minus1, counts, changes,
                violators, indices, replaced, ci, pi, varied, result, tries>>

vars == <<pc, engineVars, pageVars>>

----------------------------------------------------------------------------
(* Bounds of the model *)

\* validate's inputs: every string of at most MaxPrefixLen characters of
\* ValChars, followed by a prefix of one of the Tails
MaxPrefixLen == 2
\* the secure random source yields the 32-bit words 0..MaxRandWord
MaxRandWord == 1
\* at most MaxVaried random decisions of one attempt differ from the default one
MaxVaried == 1
\* the page of the content script holds at most MaxFields password inputs
MaxFields == 2

----------------------------------------------------------------------------
(* Characters and UTF-16 *)

Emoji == 65536 + 62976   \* U+1F600 = 0x10000 + 0xF600, outside the Basic Multilingual Plane
Null == -1               \* JS null (no character)
Undefined == -2          \* JS undefined

\* code points that occur in the model
Universe == (0 .. 127) \cup {Emoji}

Min(a, b) == IF a < b THEN a ELSE b
Max(a, b) == IF a > b THEN a ELSE b

\* the UTF-16 code units of one code point
Units(cp) ==
    IF cp > 65535
    THEN << 55296 + ((cp - 65536) \div 1024), 56320 + ((cp - 65536) % 1024) >>
    ELSE << cp >>

Range(s) == { s[i] : i \in 1 .. Len(s) }

\* the code units that occur in a JS string
UnitsIn(s) == UNION { Range(Units(s[i])) : i \in 1 .. Len(s) }

\* s.length of a JS string: its number of code units
JsLength(s) == Len(s) + Cardinality({ i \in 1 .. Len(s) : Len(Units(s[i])) = 2 })

----------------------------------------------------------------------------
(* src/lib/validator.js *)

SPECIAL_CHARS == << 35, 63, 33, 64, 36, 37, 94, 38, 42, 45 >>   \* #?!@$%^&*-

CHAR_CLASSES ==
    [ uppercase |-> [ i \in 1 .. 26 |-> 64 + i ],     \* A..Z
      lowercase |-> [ i \in 1 .. 26 |-> 96 + i ],     \* a..z
      digit     |-> [ i \in 1 .. 10 |-> 47 + i ],     \* 0..9
      special   |-> SPECIAL_CHARS ]

\* ch >= lit and ch <= lit for a one-character literal: JS compares strings
\* code unit by code unit, a proper prefix being the smaller
GeLit(ch, lit) == Units(ch)[1] >= lit
LeLit(ch, lit) == Units(ch)[1] < lit \/ (Units(ch)[1] = lit /\ Len(Units(ch)) = 1)

\* str.includes(ch): the code units of ch occur consecutively in str
Includes(str, ch) ==
    LET u == Units(ch)
    IN  \E i \in 1 .. Len(str) :
            i + Len(u) - 1 <= Len(str) /\ SubSeq(str, i, i + Len(u) - 1) = u

\* classifyChar with `ch > 'A'` for `ch >= 'A'`
classifyCharGtA(ch) ==
    IF      GeLit(ch, 66) /\ LeLit(ch, 90)   THEN "uppercase"
    ELSE IF GeLit(ch, 97) /\ LeLit(ch, 122)  THEN "lowercase"
    ELSE IF GeLit(ch, 48) /\ LeLit(ch, 57)   THEN "digit"
    ELSE IF Includes(SPECIAL_CHARS, ch)      THEN "special"
    ELSE "unknown"

\* classifyChar that takes '~' for a special character
classifyCharTilde(ch) ==
    IF      GeLit(ch, 65) /\ LeLit(ch, 90)   THEN "uppercase"
    ELSE IF GeLit(ch, 97) /\ LeLit(ch, 122)  THEN "lowercase"
    ELSE IF GeLit(ch, 48) /\ LeLit(ch, 57)   THEN "digit"
    ELSE IF Includes(SPECIAL_CHARS \o << 126 >>, ch) THEN "special"
    ELSE "unknown"

classifyChar(ch) ==
    IF      GeLit(ch, 65) /\ LeLit(ch, 90)   THEN "uppercase"
    ELSE IF GeLit(ch, 97) /\ LeLit(ch, 122)  THEN "lowercase"
    ELSE IF GeLit(ch, 48) /\ LeLit(ch, 57)   THEN "digit"
    ELSE IF Includes(SPECIAL_CHARS, ch)      THEN "special"
    ELSE "unknown"

\* number of occurrences of ch in s
Occ(s, ch) == Cardinality({ i \in 1 .. Len(s) : s[i] = ch })

\* the keys of countChars(password) in the Map's iteration order: the order
\* of first occurrence
MapKeys(s) ==
    LET IsFirst(i) == \A j \in 1 .. (i - 1) : s[j] # s[i]
        first == SelectSeq([ i \in 1 .. Len(s) |-> i ], IsFirst)
    IN  [ k \in 1 .. Len(first) |-> s[first[k]] ]

\* countChars(password).get(ch) || 0, for every key
countChars(s) == [ ch \in Universe \cup {Undefined} |-> Occ(s, ch) ]

\* Violators with `n >= 2` for `n > 2`
ViolatorsFromTwo(s) ==
    LET keys == MapKeys(s)
        entries == [ k \in 1 .. Len(keys) |-> [ ch |-> keys[k], n |-> countChars(s)[keys[k]] ] ]
        Exceeds(e) == e.n >= 2
    IN  SelectSeq(entries, Exceeds)

\* the violators of validate, in Map order
Violators(s) ==
    LET keys == MapKeys(s)
        entries == [ k \in 1 .. Len(keys) |-> [ ch |-> keys[k], n |-> countChars(s)[keys[k]] ] ]
        Exceeds(e) == e.n > 2
    IN  SelectSeq(entries, Exceeds)

\* regex.test(password) for a character class: some code unit is in the class
TestUnits(s, lo, hi) == \E u \in UnitsIn(s) : u >= lo /\ u <= hi
TestSpecial(s) == \E u \in UnitsIn(s) : u \in Range(SPECIAL_CHARS)

MinLength == 8
MaxRepeat == 2

Rule1(s) == JsLength(s) >= MinLength

\* the detail of rule 6: the joined violator texts, or undefined
Detail(v) == [ defined |-> Len(v) > 0, items |-> IF Len(v) > 0 THEN v ELSE << >> ]
NoDetail == [ defined |-> FALSE, items |-> << >> ]

RulesOf(s) ==
    LET violatorsV == Violators(s)
    IN  << [ id |-> 1, name |-> "minLength", pass |-> Rule1(s), detail |-> NoDetail ],
           [ id |-> 2, name |-> "uppercase", pass |-> TestUnits(s, 65, 90), detail |-> NoDetail ],
           [ id |-> 3, name |-> "lowercase", pass |-> TestUnits(s, 97, 122), detail |-> NoDetail ],
           [ id |-> 4, name |-> "special",   pass |-> TestSpecial(s), detail |-> NoDetail ],
           [ id |-> 5, name |-> "digit",     pass |-> TestUnits(s, 48, 57), detail |-> NoDetail ],
           [ id |-> 6, name |-> "maxRepeat", pass |-> Len(violatorsV) = 0,
             detail |-> Detail(violatorsV) ] >>

\* validate whose overall leaves rule 6 out
validateFirstFive(s) ==
    LET rules == RulesOf(s)
    IN  [ overall |-> \A i \in 1 .. 5 : rules[i].pass,
          rules   |-> rules ]

validate(s) ==
    LET rules == RulesOf(s)
    IN  [ overall |-> \A i \in 1 .. Len(rules) : rules[i].pass,
          rules   |-> rules ]

----------------------------------------------------------------------------
(* Inputs of validate *)

\* @ A Z [ ` a z { / 0 9 : # - * ~ space and U+1F600
ValChars == { 64, 65, 90, 91, 96, 97, 122, 123, 47, 48, 57, 58, 35, 45, 42, 126, 32, Emoji }

RECURSIVE StringsUpTo(_, _)
StringsUpTo(S, n) ==
    IF n = 0 THEN { << >> }
    ELSE LET shorter == StringsUpTo(S, n - 1)
         IN  shorter \cup { Append(s, c) : s \in { t \in shorter : Len(t) = n - 1 }, c \in S }

\* "aa\u{1F600}a~~~" and "bc1-Bc1"
TailA == << 97, 97, Emoji, 97, 126, 126, 126 >>
TailB == << 98, 99, 49, 45, 66, 99, 49 >>
Tails == { SubSeq(TailA, 1, k) : k \in 0 .. Len(TailA) }
             \cup { SubSeq(TailB, 1, k) : k \in 0 .. Len(TailB) }

ValidateInputs == { p \o t : p \in StringsUpTo(ValChars, MaxPrefixLen), t \in Tails }

----------------------------------------------------------------------------
(* validate(password) as a call *)

\* no content script: the engine is called on its own
NoPage ==
    /\ fields = << >>
    /\ activePasswordField = Null
    /\ mutations = FALSE
    /\ response = [ kind |-> "none" ]
    /\ access = [ by |-> "none", op |-> "none" ]

\* no call of the engine has started
EngineIdle ==
    /\ requested = 0 /\ length = 0 /\ attempt = 0 /\ chars = << >> /\ minus1 = Undefined
    /\ counts = countChars(<< >>) /\ changes = << >>
    /\ violators = << >> /\ indices = << >> /\ replaced = 0
    /\ ci = 0 /\ pi = 0 /\ varied = 0 /\ tries = 0
    /\ result = [ kind |-> "none" ]

Idle == EngineIdle /\ NoPage

InitValidate ==
    /\ pc = "validate"
    /\ password \in ValidateInputs
    /\ Idle

DoValidate ==
    /\ pc = "validate"
    /\ result' = [ kind |-> "validation", value |-> validate(password) ]
    /\ pc' = "validated"
    /\ UNCHANGED <<password, requested, length, attempt, chars, minus1, counts,
                   changes, violators, indices, replaced, ci, pi, varied>>
    /\ UNCHANGED <<tries, pageVars>>

NextValidate == DoValidate

SpecValidate == InitValidate /\ [][NextValidate]_vars

----------------------------------------------------------------------------
(* The secure random source *)

\* the 32-bit words crypto.getRandomValues yields
RandWords == 0 .. MaxRandWord

\* secureRandomInt(max), given the word drawn
secureRandomInt(max, w) == w % max

\* [0, 1, 2, 3].sort(() => secureRandomInt(3) - 1): the comparator is not
\* consistent, so the order is implementation-defined: any permutation
\* (the pools are numbered 1..4 here)
Orders ==
    { o \in [ 1 .. 4 -> 1 .. 4 ] : \A i, j \in 1 .. 4 : i # j => o[i] # o[j] }

\* a random decision of one step: the word of the one index draw the step
\* makes, and the order pickAnyAvailable's sort produces
Decisions == [ w : RandWords, order : Orders ]
DefaultDecision == [ w |-> 0, order |-> << 1, 2, 3, 4 >> ]

----------------------------------------------------------------------------
(* src/lib/generator.js: the fixer *)

\* the candidates of pickAvailable, in pool order
Candidates(pool, cnt) ==
    LET Free(ch) == cnt[ch] < 2
    IN  SelectSeq(pool, Free)

\* pickAvailable that takes any character of the pool, full or not
pickAvailableAnyCount(pool, cnt, w) ==
    IF Len(pool) = 0 THEN Null ELSE pool[secureRandomInt(Len(pool), w) + 1]

pickAvailable(pool, cnt, w) ==
    LET candidates == Candidates(pool, cnt)
    IN  IF Len(candidates) = 0 THEN Null
        ELSE candidates[secureRandomInt(Len(candidates), w) + 1]

allPools == << CHAR_CLASSES.uppercase, CHAR_CLASSES.lowercase,
               CHAR_CLASSES.digit, CHAR_CLASSES.special >>

pickAnyAvailable(cnt, d) ==
    LET ch(k) == pickAvailable(allPools[d.order[k]], cnt, d.w)
    IN  IF      ch(1) # Null THEN ch(1)
        ELSE IF ch(2) # Null THEN ch(2)
        ELSE IF ch(3) # Null THEN ch(3)
        ELSE IF ch(4) # Null THEN ch(4)
        ELSE Null

\* every result pickAnyAvailable can give: over all orders, the first pool of
\* the order that has a candidate is any pool that has one
PickAnyOutcomes(cnt) ==
    LET open == { k \in 1 .. 4 : Len(Candidates(allPools[k], cnt)) > 0 }
    IN  IF open = { } THEN { Null }
        ELSE { pickAvailable(allPools[k], cnt, w) : k \in open, w \in RandWords }

\* getPool(className): CHAR_CLASSES[className] || ''
getPool(className) ==
    IF className \in DOMAIN CHAR_CLASSES THEN CHAR_CLASSES[className] ELSE << >>

\* counts.set(ch, (counts.get(ch) || 1) - 1)
Decrement(cnt, ch) ==
    [ cnt EXCEPT ![ch] = (IF cnt[ch] = 0 THEN 1 ELSE cnt[ch]) - 1 ]

\* counts.set(ch, (counts.get(ch) || 0) + 1)
Increment(cnt, ch) == [ cnt EXCEPT ![ch] = cnt[ch] + 1 ]

\* the '' of an append's `from`
EmptyString == -3

\* the violators with excess n - 1 for n - 2
FixViolatorsExcessOne(s) ==
    LET v == Violators(s)
    IN  [ i \in 1 .. Len(v) |-> [ ch |-> v[i].ch, excess |-> v[i].n - 1 ] ]

\* tryFix: the violators collected before phase 1, in Map order
FixViolators(s) ==
    LET v == Violators(s)
    IN  [ i \in 1 .. Len(v) |-> [ ch |-> v[i].ch, excess |-> v[i].n - 2 ] ]

\* the indices of ch in the array, from left to right
IndicesOfLeftToRight(arr, ch) ==
    LET Holds(i) == arr[i + 1] = ch
    IN  SelectSeq([ k \in 1 .. Len(arr) |-> k - 1 ], Holds)

\* the indices (0-based) of ch in the array, from right to left
IndicesOf(arr, ch) ==
    LET Holds(i) == arr[i + 1] = ch
    IN  SelectSeq([ k \in 1 .. Len(arr) |-> Len(arr) - k ], Holds)

\* phase 1 without the same-class preference
Phase1OutcomesAnyClass(ch, cnt) == PickAnyOutcomes(cnt)

\* every result Phase1Replacement can give
Phase1Outcomes(ch, cnt) ==
    LET cls  == classifyChar(ch)
        pool == IF cls # "unknown" THEN getPool(cls) ELSE << >>
    IN  IF Len(Candidates(pool, cnt)) > 0
        THEN { pickAvailable(pool, cnt, w) : w \in RandWords }
        ELSE PickAnyOutcomes(cnt)

\* phase 1: the substitute for one occurrence of ch
Phase1Replacement(ch, cnt, d) ==
    LET cls  == classifyChar(ch)
        pool == IF cls # "unknown" THEN getPool(cls) ELSE << >>
        same == IF Len(pool) > 0 THEN pickAvailable(pool, cnt, d.w) ELSE Null
    IN  IF same # Null THEN same ELSE pickAnyAvailable(cnt, d)

classChecks == << "uppercase", "lowercase", "digit", "special" >>

\* check.test() of phase 2
ClassTest(name, arr) ==
    CASE name = "uppercase" -> \E i \in 1 .. Len(arr) : GeLit(arr[i], 65) /\ LeLit(arr[i], 90)
      [] name = "lowercase" -> \E i \in 1 .. Len(arr) : GeLit(arr[i], 97) /\ LeLit(arr[i], 122)
      [] name = "digit"     -> \E i \in 1 .. Len(arr) : GeLit(arr[i], 48) /\ LeLit(arr[i], 57)
      [] name = "special"   -> \E i \in 1 .. Len(arr) : Includes(CHAR_CLASSES.special, arr[i])

\* phase 2: representatives per class
ClassCounts(arr) ==
    [ cl \in { "uppercase", "lowercase", "digit", "special" } |->
        Cardinality({ i \in 1 .. Len(arr) : classifyChar(arr[i]) = cl }) ]

\* phase 2: the scan for the position to overwrite, from index i down to 0,
\* with the best index and surplus found so far
RECURSIVE ScanBest(_, _, _, _, _, _)
ScanBest(arr, classCounts, name, i, bestIdx, bestSurplus) ==
    IF i < 0 THEN bestIdx
    ELSE LET cl == classifyChar(arr[i + 1])
         IN  IF cl = name THEN ScanBest(arr, classCounts, name, i - 1, bestIdx, bestSurplus)
             ELSE IF cl = "unknown" THEN i
             ELSE LET surplus == classCounts[cl]
                  IN  IF surplus > 1 /\ surplus > bestSurplus
                      THEN ScanBest(arr, classCounts, name, i - 1, i, surplus)
                      ELSE ScanBest(arr, classCounts, name, i - 1, bestIdx, bestSurplus)

\* BestIdx that always takes the last position
BestIdxLast(arr, name) == Len(arr) - 1

BestIdx(arr, name) ==
    LET found == ScanBest(arr, ClassCounts(arr), name, Len(arr) - 1, -1, 0)
    IN  IF found = -1 THEN Len(arr) - 1 ELSE found

\* chars[idx] and chars[idx] = ch, the index -1 being a property of the array
\* beside its elements
ArrayGet(arr, m1, idx) == IF idx = -1 THEN m1 ELSE arr[idx + 1]
\* chars[idx] = ch written one position to the left
ArraySetOneLeft(arr, idx, ch) == IF idx < 1 THEN arr ELSE [ arr EXCEPT ![idx] = ch ]

ArraySet(arr, idx, ch) == IF idx = -1 THEN arr ELSE [ arr EXCEPT ![idx + 1] = ch ]

\* the padding loop's condition with 7 for 8
PadNeededBelowSeven(arr) == Len(arr) < 7

\* the padding loop's condition with `<=` for `<`
PadNeededUpToEight(arr) == Len(arr) <= 8

\* phase 3: the padding loop's condition, chars.length < 8
PadNeeded(arr) == Len(arr) < 8

\* the result of tryFix
FixResultAssumedValid(orig, arr, chg) ==
    [ kind |-> "fix", original |-> orig, fixed |-> arr, changes |-> chg,
      valid |-> TRUE ]

FixResult(orig, arr, chg) ==
    [ kind |-> "fix", original |-> orig, fixed |-> arr, changes |-> chg,
      valid |-> validate(arr).overall ]

\* fix's loop: the attempt's result is dropped and tryFix runs again
ShouldRetryAlways(att, valid) == att < 3

ShouldRetry(att, valid) == att < 3 /\ ~valid

----------------------------------------------------------------------------
(* Inputs of fix *)

\* every character of the four alphabets twice: 144 characters, a valid password
FullTwice ==
    LET pool == allPools[1] \o allPools[2] \o allPools[3] \o allPools[4]
    IN  pool \o pool

FixInputs ==
    { << 65, 98, 99, 100, 101, 102, 49, 35 >>,            \* "Abcdef1#"
      << 65, 98, 99, 100, 101, 102, 49, 35, 126 >>,       \* "Abcdef1#~"
      << 65, 98, 49, 35, 120, 121, Emoji >>,              \* "Ab1#xy\u{1F600}"
      << 65, 65, 65, 100, 101, 102, 49, 35 >>,            \* "AAAdef1#"
      << 65, 65, 98, 65, 100, 101, 49, 35 >>,             \* "AAbAde1#"
      << 65, 65, 65, 97, 97, 97, 49, 35 >>,               \* "AAAaaa1#"
      << 97, 98, 99, 97, 98, 99, 97, 98 >>,               \* "abcabcab"
      << 65, 98, 49, 35, 120 >>,                          \* "Ab1#x"
      << 65, 98, 49, 35, 126, 120, 121, 122 >>,           \* "Ab1#~xyz"
      << 126, 126, 126, 126, 120, 121, 122 >>,            \* "~~~~xyz"
      << 35, 35, 35, 35, 88, 121, 49, 35, 97, 98, 99, 100 >>,  \* "####Xy1#abcd"
      SubSeq(FullTwice, 1, 99) \o << 65 >>,               \* 100 characters, 'A' 3 times
      FullTwice,                                          \* valid, 144 characters
      SubSeq(FullTwice, 1, 143) \o << 65 >>,              \* 144: 'A' 3 times, '-' once
      FullTwice \o << 65 >>,                              \* 145: 'A' 3 times, no free character
      FullTwice \o << 126 >> }                            \* 145: a '~', no free character

\* inputs shorter than 8 characters (and one that makes phase 1 run)
ShortFixInputs ==
    { << >>,                                              \* ""
      << 65, 97, 48 >>,                                   \* "Aa0"
      << 65, 98, 49, 35 >>,                               \* "Ab1#"
      << 97, 97, 97, 97 >>,                               \* "aaaa"
      << 98, 65, 98, 49, 99, 50, 65 >>,                   \* "bAb1c2A"
      << 65, 65, 65, 100, 101, 102, 49, 35 >> }           \* "AAAdef1#"

----------------------------------------------------------------------------
(* fix(password) and tryFix(password), step by step *)

\* a random decision whose outcome is `out` where the default decision gives
\* `def`: at most MaxVaried decisions of an attempt differ from the default
Varies(out, def) ==
    IF out = def THEN varied' = varied
    ELSE varied < MaxVaried /\ varied' = varied + 1

InitFix ==
    /\ pc = "tryFix"
    /\ password \in FixInputs
    /\ Idle

\* tryFix, lines 172-184: the working copies and the violators
TryFixBegin ==
    /\ pc = "tryFix"
    /\ chars' = password
    /\ minus1' = Undefined
    /\ counts' = countChars(password)
    /\ changes' = << >>
    /\ violators' = FixViolators(password)
    /\ indices' = << >>
    /\ replaced' = 0
    /\ pc' = "phase1"
    /\ UNCHANGED <<password, requested, length, attempt, ci, pi, varied, result>>
    /\ UNCHANGED <<tries, pageVars>>

\* phase 1, lines 186-196: the next violator and its indices, or the end of
\* the phase
Phase1Violator ==
    /\ pc = "phase1"
    /\ IF Len(violators) = 0
       THEN /\ pc' = "phase2"
            /\ ci' = 1
            /\ UNCHANGED <<indices, replaced>>
       ELSE /\ indices' = IndicesOf(chars, Head(violators).ch)
            /\ replaced' = 0
            /\ pc' = "replace"
            /\ UNCHANGED ci
    /\ UNCHANGED <<password, requested, length, attempt, chars, minus1, counts,
                   changes, violators, pi, varied, result>>
    /\ UNCHANGED <<tries, pageVars>>

\* phase 1, lines 195-214: one index of the current violator
Phase1Replace ==
    /\ pc = "replace"
    /\ IF Len(indices) = 0 \/ replaced >= Head(violators).excess
       THEN /\ violators' = Tail(violators)
            /\ pc' = "phase1"
            /\ UNCHANGED <<chars, counts, changes, indices, replaced, varied>>
       ELSE LET ch  == Head(violators).ch
                idx == Head(indices)
                default == Phase1Replacement(ch, counts, DefaultDecision)
            IN  \E replacement \in Phase1Outcomes(ch, counts) :
                /\ Varies(replacement, default)
                /\ indices' = Tail(indices)
                /\ IF replacement # Null
                   THEN /\ changes' = Append(changes,
                                [ index |-> idx, from |-> ch, to |-> replacement ])
                        /\ chars' = ArraySet(chars, idx, replacement)
                        /\ counts' = Increment(Decrement(counts, ch), replacement)
                        /\ replaced' = replaced + 1
                   ELSE UNCHANGED <<changes, chars, counts, replaced>>
                /\ UNCHANGED <<violators, pc>>
    /\ UNCHANGED <<password, requested, length, attempt, minus1, ci, pi, result>>
    /\ UNCHANGED <<tries, pageVars>>

\* phase 2, lines 227-270: one class check
Phase2Check ==
    /\ pc = "phase2"
    /\ IF ci > Len(classChecks)
       THEN /\ pc' = "phase3"
            /\ UNCHANGED <<chars, minus1, counts, changes, ci, varied>>
       ELSE /\ ci' = ci + 1
            /\ pc' = pc
            /\ IF ClassTest(classChecks[ci], chars)
               THEN UNCHANGED <<chars, minus1, counts, changes, varied>>
               ELSE LET pool == getPool(classChecks[ci])
                        default == pickAvailable(pool, counts, DefaultDecision.w)
                        bestIdx == BestIdx(chars, classChecks[ci])
                        oldCh == ArrayGet(chars, minus1, bestIdx)
                    IN  \E replacement \in { pickAvailable(pool, counts, w) : w \in RandWords } :
                        /\ Varies(replacement, default)
                        /\ IF replacement = Null
                           THEN UNCHANGED <<chars, minus1, counts, changes>>
                           ELSE /\ changes' = Append(changes,
                                        [ index |-> bestIdx, from |-> oldCh, to |-> replacement ])
                                /\ chars' = ArraySet(chars, bestIdx, replacement)
                                /\ minus1' = IF bestIdx = -1 THEN replacement ELSE minus1
                                /\ counts' = Increment(Decrement(counts, oldCh), replacement)
    /\ UNCHANGED <<password, requested, length, attempt, violators, indices,
                   replaced, pi, result>>
    /\ UNCHANGED <<tries, pageVars>>

\* phase 3, lines 273-280: one round of the padding loop
Phase3Pad ==
    /\ pc = "phase3"
    /\ IF PadNeeded(chars)
       THEN LET default == pickAnyAvailable(counts, DefaultDecision)
            IN  \E ch \in PickAnyOutcomes(counts) :
                /\ Varies(ch, default)
                /\ IF ch = Null
                   THEN /\ pc' = "phase4"
                        /\ pi' = 0
                        /\ UNCHANGED <<chars, counts, changes>>
                   ELSE /\ chars' = Append(chars, ch)
                        /\ counts' = Increment(counts, ch)
                        /\ changes' = Append(changes,
                                [ index |-> Len(chars), from |-> EmptyString, to |-> ch ])
                        /\ UNCHANGED <<pc, pi>>
       ELSE /\ pc' = "phase4"
            /\ pi' = 0
            /\ UNCHANGED <<chars, counts, changes, varied>>
    /\ UNCHANGED <<password, requested, length, attempt, minus1, violators,
                   indices, replaced, ci, result>>
    /\ UNCHANGED <<tries, pageVars>>

\* phase 4, lines 283-294: the cleanup loop up to and including the next
\* index that holds an unknown character, or to its end
Phase4Unknown ==
    /\ pc = "phase4"
    /\ LET unknown == { i \in pi .. (Len(chars) - 1) : classifyChar(chars[i + 1]) = "unknown" }
       IN  IF unknown # { }
           THEN LET i == CHOOSE k \in unknown : \A j \in unknown : k <= j
                    default == pickAnyAvailable(counts, DefaultDecision)
                    oldCh == chars[i + 1]
                IN  \E replacement \in PickAnyOutcomes(counts) :
                    /\ Varies(replacement, default)
                    /\ pi' = i + 1
                    /\ pc' = pc
                    /\ IF replacement # Null
                       THEN /\ changes' = Append(changes,
                                    [ index |-> i, from |-> oldCh, to |-> replacement ])
                            /\ counts' = Increment(Decrement(counts, oldCh), replacement)
                            /\ chars' = ArraySet(chars, i, replacement)
                       ELSE UNCHANGED <<changes, counts, chars>>
           ELSE /\ pc' = "return"
                /\ pi' = Len(chars)
                /\ UNCHANGED <<changes, counts, chars, varied>>
    /\ UNCHANGED <<password, requested, length, attempt, minus1, violators,
                   indices, replaced, ci, result>>
    /\ UNCHANGED <<tries, pageVars>>

\* tryFix, lines 296-304, and fix, lines 158-163: the attempt's result is
\* returned, or dropped for another attempt
FixReturn ==
    /\ pc = "return"
    /\ LET r == FixResult(password, chars, changes)
       IN  ~ShouldRetry(attempt, r.valid)
           /\ result' = r
    /\ pc' = "fixed"
    /\ UNCHANGED <<password, requested, length, attempt, chars, minus1, counts,
                   changes, violators, indices, replaced, ci, pi, varied>>
    /\ UNCHANGED <<tries, pageVars>>

FixRetry ==
    /\ pc = "return"
    /\ ShouldRetry(attempt, FixResult(password, chars, changes).valid)
    /\ attempt' = attempt + 1
    /\ pc' = "tryFix"
    \* the locals of the finished tryFix are gone
    /\ chars' = << >> /\ minus1' = Undefined /\ counts' = countChars(<< >>)
    /\ changes' = << >> /\ violators' = << >> /\ indices' = << >>
    /\ replaced' = 0 /\ ci' = 0 /\ pi' = 0 /\ varied' = 0
    /\ UNCHANGED <<password, requested, length, result>>
    /\ UNCHANGED <<tries, pageVars>>

NextFix ==
    \/ TryFixBegin
    \/ Phase1Violator
    \/ Phase1Replace
    \/ Phase2Check
    \/ Phase3Pad
    \/ Phase4Unknown
    \/ FixReturn
    \/ FixRetry

SpecFix == InitFix /\ [][NextFix]_vars

InitFixShort ==
    /\ pc = "tryFix"
    /\ password \in ShortFixInputs
    /\ Idle

SpecFixShort == InitFixShort /\ [][NextFix]_vars

\* fix on the inputs of both sets
InitFixAll == InitFix \/ InitFixShort

SpecFixAll == InitFixAll /\ [][NextFix]_vars

----------------------------------------------------------------------------
(* src/lib/generator.js: the generator *)

\* randomChar that returns the index drawn, not the character at it
randomCharIndex(str, w) == secureRandomInt(Len(str), w)

\* randomChar(chars), given the word drawn
randomChar(str, w) == str[secureRandomInt(Len(str), w) + 1]

\* the clamp with its bounds swapped: Math.min(8, Math.max(40, length))
ClampSwapped(len) == Min(8, Max(40, len))

\* length = Math.max(8, Math.min(40, length))
Clamp(len) == Max(8, Min(40, len))

\* the full pool of generate
GenPool ==
    CHAR_CLASSES.uppercase \o CHAR_CLASSES.lowercase \o CHAR_CLASSES.digit
        \o CHAR_CLASSES.special

\* the characters the 100 draws of a slot can give
Drawable == { randomChar(GenPool, w) : w \in RandWords }

\* the fallback scan that takes the last character with count < 2
FallbackScanLast(cnt) ==
    LET candidates == Candidates(GenPool, cnt)
    IN  IF Len(candidates) = 0 THEN Null ELSE candidates[Len(candidates)]

\* the fallback scan: the first character of the pool with count < 2
FallbackScan(cnt) ==
    LET candidates == Candidates(GenPool, cnt)
    IN  IF Len(candidates) = 0 THEN Null ELSE candidates[1]

\* the draw loop's condition with `<=` for `<`
MoreTriesUpTo(t) == t <= 100

\* the draw loop's condition, tries < 100
MoreTries(t) == t < 100

\* the last value of tries for which the draw loop's body runs
LastTry == CHOOSE t \in 0 .. 200 : MoreTries(t) /\ ~MoreTries(t + 1)

\* the values of tries at which a draw can be the first accepted one: the
\* first draw, or a later one after draws of characters with count >= 2
\* (of the later ones, the second and the last)
AcceptTries(cnt) ==
    IF \E ch \in Drawable : cnt[ch] >= 2 THEN { 0, 1, LastTry } ELSE { 0 }

\* how the draw loop of one slot can end: a character accepted at some value
\* of tries, or every draw rejected
DrawOutcomes(cnt) ==
    { [ added |-> TRUE, ch |-> ch, tries |-> t ] :
          ch \in { c \in Drawable : cnt[c] < 2 }, t \in AcceptTries(cnt) }
        \cup (IF \E ch \in Drawable : cnt[ch] >= 2
              THEN { [ added |-> FALSE, ch |-> Null, tries |-> LastTry + 1 ] }
              ELSE { })

\* how the draw loop ends when every draw gives word 0
DrawDefault(cnt) ==
    IF cnt[randomChar(GenPool, 0)] < 2
    THEN [ added |-> TRUE, ch |-> randomChar(GenPool, 0), tries |-> 0 ]
    ELSE [ added |-> FALSE, ch |-> Null, tries |-> LastTry + 1 ]

\* shuffle(arr), lines 30-35, from index i down to 1, every draw giving word w
RECURSIVE Shuffle(_, _, _)
Shuffle(arr, i, w) ==
    IF i <= 0 THEN arr
    ELSE LET j == secureRandomInt(i + 1, w)
         IN  Shuffle([ arr EXCEPT ![i + 1] = arr[j + 1], ![j + 1] = arr[i + 1] ], i - 1, w)

\* the value generate returns for a candidate that passed validation
GenerateResultOf(pw) == [ kind |-> "generate", password |-> pw, valid |-> TRUE ]

\* the value generate returns after its loop
GenerateGiveUp == [ kind |-> "generate", password |-> << >>, valid |-> FALSE ]

\* requested lengths
GenRequests == { -3, 7, 8, 9, 40, 41 }

InitGenerate ==
    /\ pc = "generate"
    /\ requested \in GenRequests
    /\ length = requested
    /\ password = << >>
    /\ attempt = 0 /\ chars = << >> /\ minus1 = Undefined
    /\ counts = countChars(<< >>) /\ changes = << >>
    /\ violators = << >> /\ indices = << >> /\ replaced = 0
    /\ ci = 0 /\ pi = 0 /\ varied = 0 /\ tries = 0
    /\ result = [ kind |-> "none" ]
    /\ NoPage

\* line 43
GenClamp ==
    /\ pc = "generate"
    /\ length' = Clamp(length)
    /\ attempt' = 0
    /\ pc' = "attempt"
    /\ UNCHANGED <<password, requested, chars, minus1, counts, changes, violators,
                   indices, replaced, ci, pi, varied, result>>
    /\ UNCHANGED <<tries, pageVars>>

\* lines 45-47 and 96: the next attempt, or the result after the loop
GenAttempt ==
    /\ pc = "attempt"
    /\ IF attempt < 10
       THEN /\ chars' = << >>
            /\ counts' = countChars(<< >>)
            /\ ci' = 1
            /\ varied' = 0
            /\ pc' = "seed"
            /\ UNCHANGED result
       ELSE /\ result' = GenerateGiveUp
            /\ pc' = "generated"
            /\ UNCHANGED <<chars, counts, ci, varied>>
    /\ UNCHANGED <<password, requested, length, attempt, minus1, changes,
                   violators, indices, replaced, pi>>
    /\ UNCHANGED <<tries, pageVars>>

\* lines 55-58: one seed, from the class allPools[ci]
GenSeed ==
    /\ pc = "seed"
    /\ \E ch \in { randomChar(allPools[ci], w) : w \in RandWords } :
        /\ Varies(ch, randomChar(allPools[ci], 0))
        /\ chars' = Append(chars, ch)
        /\ counts' = Increment(counts, ch)
    /\ IF ci < 4
       THEN ci' = ci + 1 /\ UNCHANGED <<pc, pi>>
       ELSE ci' = ci /\ pc' = "fill" /\ pi' = Len(chars')
    /\ UNCHANGED <<password, requested, length, attempt, minus1, changes,
                   violators, indices, replaced, result>>
    /\ UNCHANGED <<tries, pageVars>>

\* lines 65-75: the draw loop of one slot of the fill loop (pi is the fill
\* loop's i), or the end of the fill loop
GenFill ==
    /\ pc = "fill"
    /\ IF pi < length
       THEN \E o \in DrawOutcomes(counts) :
                /\ Varies(o, DrawDefault(counts))
                /\ tries' = o.tries
                /\ IF o.added
                   THEN /\ chars' = Append(chars, o.ch)
                        /\ counts' = Increment(counts, o.ch)
                        /\ pi' = pi + 1
                        /\ pc' = pc
                   ELSE /\ pc' = "scan"
                        /\ UNCHANGED <<chars, counts, pi>>
       ELSE /\ pc' = "shuffle"
            /\ UNCHANGED <<pi, chars, counts, varied, tries>>
    /\ UNCHANGED <<password, requested, length, attempt, minus1, changes,
                   violators, indices, replaced, ci, result>>
    /\ UNCHANGED pageVars

\* lines 76-84: the fallback scan of a slot whose draws were all rejected
GenScan ==
    /\ pc = "scan"
    /\ LET ch == FallbackScan(counts)
       IN  IF ch # Null
           THEN /\ chars' = Append(chars, ch)
                /\ counts' = Increment(counts, ch)
           ELSE UNCHANGED <<chars, counts>>
    /\ pi' = pi + 1
    /\ pc' = "fill"
    /\ UNCHANGED <<password, requested, length, attempt, minus1, changes,
                   violators, indices, replaced, ci, varied, result, tries>>
    /\ UNCHANGED pageVars

\* line 86
GenShuffle ==
    /\ pc = "shuffle"
    /\ \E shuffled \in { Shuffle(chars, Len(chars) - 1, w) : w \in RandWords } :
        /\ Varies(shuffled, Shuffle(chars, Len(chars) - 1, 0))
        /\ chars' = shuffled
    /\ pc' = "check"
    /\ UNCHANGED <<password, requested, length, attempt, minus1, counts, changes,
                   violators, indices, replaced, ci, pi, result>>
    /\ UNCHANGED <<tries, pageVars>>

\* lines 87-93: the candidate is validated and returned, or dropped
GenCheck ==
    /\ pc = "check"
    /\ IF validate(chars).overall
       THEN /\ result' = GenerateResultOf(chars)
            /\ pc' = "generated"
            /\ UNCHANGED attempt
       ELSE /\ attempt' = attempt + 1
            /\ pc' = "attempt"
            /\ UNCHANGED result
    /\ UNCHANGED <<password, requested, length, chars, minus1, counts, changes,
                   violators, indices, replaced, ci, pi, varied>>
    /\ UNCHANGED <<tries, pageVars>>

NextGenerate ==
    \/ GenClamp
    \/ GenAttempt
    \/ GenSeed
    \/ GenFill
    \/ GenScan
    \/ GenShuffle
    \/ GenCheck

SpecGenerate == InitGenerate /\ [][NextGenerate]_vars

----------------------------------------------------------------------------
(* src/unnamed/part_000: the content script *)

\* the password inputs the page can hold, numbered in document order
Elements == 1 .. MaxFields

\* an element that does not match input[type="password"]
NotAPasswordInput == 0

\* values the page (the user typing) gives a field
FieldValues == { << >>, << 115 >> }

\* passwords the popup sends with 'fill'
FillPasswords == { << 70, 49 >> }

\* the messages of the popup, and one of a type the listener does not know
Messages ==
    { [ type |-> t, password |-> << >> ] : t \in { "read", "detect", "ping" } }
        \cup { [ type |-> "fill", password |-> p ] : p \in FillPasswords }

\* findPasswordFields(): the attached password inputs, in document order
findPasswordFields(f) ==
    LET Attached(e) == f[e].attached
    IN  SelectSeq([ e \in 1 .. MaxFields |-> e ], Attached)

\* getTargetField() without the focus tracking: the first field
getTargetFieldFirst(f, active) ==
    LET found == findPasswordFields(f)
    IN  IF Len(found) > 0 THEN found[1] ELSE Null

\* getTargetField()
getTargetField(f, active) ==
    IF active # Null /\ f[active].attached
    THEN active
    ELSE LET found == findPasswordFields(f)
         IN  IF Len(found) > 0 THEN found[1] ELSE Null

\* addIndicators() without the test of dataset.pphIndicator
addIndicatorsUnmarked(f) ==
    [ e \in Elements |->
        IF f[e].attached
        THEN [ f[e] EXCEPT !.marked = TRUE, !.indicators = @ + 1 ]
        ELSE f[e] ]

\* addIndicators(): every attached field not yet marked is marked and gets an
\* indicator appended to its parent
addIndicators(f) ==
    [ e \in Elements |->
        IF f[e].attached /\ ~f[e].marked
        THEN [ f[e] EXCEPT !.marked = TRUE, !.indicators = @ + 1 ]
        ELSE f[e] ]

\* setFieldValue(field, value)
setFieldValue(f, field, value) == [ f EXCEPT ![field].value = value ]

\* the listener whose 'detect' branch also reports the target field's value
HandleMessageDetectReads(msg, f, active) ==
    LET field == getTargetField(f, active)
    IN  [ fields   |-> f,
          response |-> [ kind |-> "detect", found |-> field # Null,
                         password |-> IF field # Null THEN f[field].value ELSE << >> ],
          access   |-> [ by |-> msg.type,
                         op |-> IF field # Null THEN "read" ELSE "none" ] ]

\* the chrome.runtime.onMessage listener: the fields after it, its response
\* and what it did with a field's value
HandleMessage(msg, f, active) ==
    IF msg.type = "read"
    THEN LET field == getTargetField(f, active)
         IN  [ fields   |-> f,
               response |-> [ kind |-> "read",
                              password |-> IF field # Null THEN f[field].value ELSE << >> ],
               access   |-> [ by |-> "read", op |-> IF field # Null THEN "read" ELSE "none" ] ]
    ELSE IF msg.type = "fill"
    THEN LET field == getTargetField(f, active)
         IN  IF field # Null
             THEN [ fields   |-> setFieldValue(f, field, msg.password),
                    response |-> [ kind |-> "fill", success |-> TRUE ],
                    access   |-> [ by |-> "fill", op |-> "write" ] ]
             ELSE [ fields   |-> f,
                    response |-> [ kind |-> "fill", success |-> FALSE ],
                    access   |-> [ by |-> "fill", op |-> "none" ] ]
    ELSE IF msg.type = "detect"
    THEN LET found == findPasswordFields(f)
         IN  [ fields   |-> f,
               response |-> [ kind |-> "detect", found |-> Len(found) > 0,
                              count |-> Len(found) ],
               access   |-> [ by |-> "detect", op |-> "none" ] ]
    ELSE [ fields   |-> f,
           response |-> [ kind |-> "none" ],
           access   |-> [ by |-> msg.type, op |-> "none" ] ]

\* the pages the script can be injected into
Documents ==
    [ Elements -> { [ attached |-> a, value |-> v, marked |-> FALSE, indicators |-> 0 ] :
                      a \in BOOLEAN, v \in FieldValues } ]

\* lines 107-116: the script has run; the observer, registered after the
\* first addIndicators, has nothing pending
InitPage ==
    /\ pc = "page"
    /\ password = << >>
    /\ EngineIdle
    /\ fields \in { addIndicators(d) : d \in Documents }
    /\ activePasswordField = Null
    /\ mutations = FALSE
    /\ response = [ kind |-> "none" ]
    /\ access = [ by |-> "init", op |-> "none" ]

\* lines 23-27: a focusin event reaches the document's listener
FocusIn ==
    /\ pc = "page"
    /\ \E target \in Elements \cup { NotAPasswordInput } :
        /\ target \in Elements => fields[target].attached
        /\ activePasswordField' =
               IF target \in Elements THEN target ELSE activePasswordField
        /\ access' = [ by |-> "focusin", op |-> "none", target |-> target ]
    /\ UNCHANGED <<pc, engineVars, fields, mutations, response>>

\* the page inserts a password input
PageInsert ==
    /\ pc = "page"
    /\ \E e \in Elements :
        /\ ~fields[e].attached
        /\ fields' = [ fields EXCEPT ![e].attached = TRUE ]
    /\ mutations' = TRUE
    /\ access' = [ by |-> "page", op |-> "none" ]
    /\ UNCHANGED <<pc, engineVars, activePasswordField, response>>

\* the page removes a password input
PageRemove ==
    /\ pc = "page"
    /\ \E e \in Elements :
        /\ fields[e].attached
        /\ fields' = [ fields EXCEPT ![e].attached = FALSE ]
    /\ mutations' = TRUE
    /\ access' = [ by |-> "page", op |-> "none" ]
    /\ UNCHANGED <<pc, engineVars, activePasswordField, response>>

\* the user types into a password input
PageInput ==
    /\ pc = "page"
    /\ \E e \in Elements, v \in FieldValues :
        /\ fields[e].attached
        /\ fields[e].value # v
        /\ fields' = [ fields EXCEPT ![e].value = v ]
    /\ access' = [ by |-> "page", op |-> "none" ]
    /\ UNCHANGED <<pc, engineVars, activePasswordField, mutations, response>>

\* line 112: the MutationObserver's callback; the indicators it appends are
\* child-list mutations of their own
ObserverCallback ==
    /\ pc = "page"
    /\ mutations
    /\ fields' = addIndicators(fields)
    /\ mutations' = (fields' # fields)
    /\ access' = [ by |-> "observer", op |-> "none" ]
    /\ UNCHANGED <<pc, engineVars, activePasswordField, response>>

\* lines 88-105: a message of the popup reaches the listener
OnMessage ==
    /\ pc = "page"
    /\ \E msg \in Messages :
        LET h == HandleMessage(msg, fields, activePasswordField)
        IN  /\ fields' = h.fields
            /\ response' = h.response
            /\ access' = h.access
    /\ UNCHANGED <<pc, engineVars, activePasswordField, mutations>>

NextPage ==
    \/ FocusIn
    \/ PageInsert
    \/ PageRemove
    \/ PageInput
    \/ ObserverCallback
    \/ OnMessage

SpecPage == InitPage /\ [][NextPage]_vars

\* fix and generate side by side
InitSound == InitFix \/ InitGenerate

NextSound == NextFix \/ NextGenerate

SpecSound == InitSound /\ [][NextSound]_vars

----------------------------------------------------------------------------
(* Claims about validate, checked under SpecValidate *)

Validated == pc = "validated"
VRules == result.value.rules

\* C5: validate(s).overall is true iff all six rule entries pass, and the
\* rules are exactly six entries with the ids 1,2,3,4,5,6 in that order.
C5_OverallIffAllSix ==
    Validated =>
        /\ Len(VRules) = 6
        /\ \A i \in 1 .. 6 : VRules[i].id = i
        /\ result.value.overall =
              (VRules[1].pass /\ VRules[2].pass /\ VRules[3].pass
                 /\ VRules[4].pass /\ VRules[5].pass /\ VRules[6].pass)

\* a password that fails rule 6 only
C5_Witness ==
    /\ Validated
    /\ ~result.value.overall
    /\ \A i \in 1 .. 5 : VRules[i].pass
    /\ ~VRules[6].pass

\* C6: rule 1 passes exactly when the password has at least 8 characters
\* counted as Unicode code points.
C6_Rule1CountsCodePoints ==
    Validated => (VRules[1].pass = (Len(password) >= 8))

\* C7: rules 2, 3, 4, 5 pass iff some character of the password is classified
\* uppercase, lowercase, special, digit by classifyChar, and classifyChar maps
\* the characters of the four class alphabets to their class and every other
\* character to unknown.
ClassOfTable(ch) ==
    IF      ch \in Range(CHAR_CLASSES.uppercase) THEN "uppercase"
    ELSE IF ch \in Range(CHAR_CLASSES.lowercase) THEN "lowercase"
    ELSE IF ch \in Range(CHAR_CLASSES.digit)     THEN "digit"
    ELSE IF ch \in { 35, 63, 33, 64, 36, 37, 94, 38, 42, 45 } THEN "special"
    ELSE "unknown"

HasClass(s, cls) == \E i \in 1 .. Len(s) : classifyChar(s[i]) = cls

C7_ClassRulesAgree ==
    Validated =>
        /\ VRules[2].pass = HasClass(password, "uppercase")
        /\ VRules[3].pass = HasClass(password, "lowercase")
        /\ VRules[4].pass = HasClass(password, "special")
        /\ VRules[5].pass = HasClass(password, "digit")
        /\ \A i \in 1 .. Len(password) :
              classifyChar(password[i]) = ClassOfTable(password[i])

\* a password of unknown characters only (one of them outside the BMP)
C7_Witness ==
    /\ Validated
    /\ Len(password) >= 2
    /\ Emoji \in Range(password)
    /\ \A i \in 1 .. Len(password) : classifyChar(password[i]) = "unknown"
    /\ \A k \in 2 .. 5 : ~VRules[k].pass

\* C8: rule 6 passes iff no character occurs more than 2 times (case-
\* sensitive); when it fails its detail names exactly the characters whose
\* count exceeds 2, each with its count, and when it passes the detail is
\* absent.
C8_Rule6AndDetail ==
    Validated =>
        LET d == VRules[6].detail
        IN  /\ VRules[6].pass = (\A ch \in Range(password) : Occ(password, ch) <= 2)
            /\ VRules[6].pass => ~d.defined
            /\ ~VRules[6].pass =>
                  /\ d.defined
                  /\ { d.items[i] : i \in 1 .. Len(d.items) }
                        = { [ ch |-> c, n |-> Occ(password, c) ] :
                              c \in { x \in Range(password) : Occ(password, x) > 2 } }

\* two violators, and 'A' twice beside 'a' without 'A' being named
C8_Witness ==
    /\ Validated
    /\ ~VRules[6].pass
    /\ Len(VRules[6].detail.items) = 2
    /\ Occ(password, 65) = 2
    /\ Occ(password, 97) > 2

----------------------------------------------------------------------------
(* Claims about fix, checked under SpecFix and SpecFixShort *)

Fixed == pc = "fixed"

PoolSize == Len(allPools[1]) + Len(allPools[2]) + Len(allPools[3]) + Len(allPools[4])

NoUnknown(s) == \A i \in 1 .. Len(s) : classifyChar(s[i]) # "unknown"

\* C1 as stated: for every valid s, fix(s) records no change and fixed = s.
C1_IdempotentOnValid ==
    (Fixed /\ validate(password).overall) =>
        (result.changes = << >> /\ result.fixed = password)

\* C1 as amended: for every valid s that holds no character of class
\* unknown, fix(s) records no change and fixed = s (and the result is the
\* first attempt's, with valid = true).
C1_IdempotentOnValidKnown ==
    (Fixed /\ validate(password).overall /\ NoUnknown(password)) =>
        /\ result.changes = << >>
        /\ result.fixed = password
        /\ result.valid
        /\ attempt = 0

C1_Witness ==
    /\ Fixed
    /\ validate(password).overall
    /\ NoUnknown(password)
    /\ Len(password) = 8

\* C3 as stated: no character occurs more than 2 times in fix(s).fixed.
C3_RepeatLimit ==
    Fixed => \A ch \in Range(result.fixed) : Occ(result.fixed, ch) <= 2

\* C3 as amended: for every input of at most 144 characters (2 occurrences
\* of each of the 72 characters of the four alphabets), no character occurs
\* more than 2 times in fix(s).fixed.
C3_RepeatLimitUpTo144 ==
    (Fixed /\ Len(password) <= MaxRepeat * PoolSize) =>
        \A ch \in Range(result.fixed) : Occ(result.fixed, ch) <= 2

\* an input of 144 characters with a character 3 times, repaired
C3_Witness ==
    /\ Fixed
    /\ Len(password) = MaxRepeat * PoolSize
    /\ \E ch \in Range(password) : Occ(password, ch) > 2
    /\ Len(result.changes) = 1

C10_FixedAtLeastEight ==
    Fixed => Len(result.fixed) >= 8

\* the empty string, padded
C10_Witness ==
    /\ Fixed
    /\ password = << >>
    /\ Len(result.fixed) = 8
    /\ Len(result.changes) >= 8

----------------------------------------------------------------------------
(* Claims about generate, and about fix and generate together *)

Generated == pc = "generated"

\* the password a finished fix or generate returned
Returned == IF Fixed THEN result.fixed ELSE result.password

\* the six rules, read off the password itself
AllSixHold(s) ==
    /\ \A i \in 1 .. 6 : validate(s).rules[i].pass
    /\ JsLength(s) >= MinLength
    /\ \A cls \in { "uppercase", "lowercase", "special", "digit" } : HasClass(s, cls)
    /\ \A i \in 1 .. Len(s) : Occ(s, s[i]) <= MaxRepeat

C9_GenerateLengthClamped ==
    Generated =>
        /\ result.valid
        /\ Len(result.password) =
               (IF requested < 8 THEN 8 ELSE IF requested > 40 THEN 40 ELSE requested)
        /\ JsLength(result.password) = Len(result.password)

\* generate(41) returned a valid password of 40 characters
C9_Witness ==
    /\ Generated
    /\ requested > 40
    /\ Len(result.password) = 40
    /\ result.valid

----------------------------------------------------------------------------
(* Alphabet closure *)

\* the union of the four class alphabets: A-Z, a-z, 0-9 and #?!@$%^&*-
Alphabet ==
    (65 .. 90) \cup (97 .. 122) \cup (48 .. 57)
        \cup { 35, 63, 33, 64, 36, 37, 94, 38, 42, 45 }

InAlphabet(s) == \A i \in 1 .. Len(s) : s[i] \in Alphabet

\* C11 as stated: every character of fix(s).fixed belongs to one of the four
\* class alphabets, for every input s.
C11_FixAlphabetClosure ==
    Fixed => InAlphabet(result.fixed)

\* C11 as amended: for every input of at most 144 characters, every
\* character of fix(s).fixed belongs to one of the four class alphabets.
C11_FixAlphabetClosureUpTo144 ==
    (Fixed /\ Len(password) <= MaxRepeat * PoolSize) => InAlphabet(result.fixed)

\* an input with characters outside the alphabets (one of them outside the
\* BMP), all of them replaced
C11_Witness ==
    /\ Fixed
    /\ Emoji \in Range(password)
    /\ InAlphabet(result.fixed)
    /\ \E i \in 1 .. Len(result.changes) : result.changes[i].from = Emoji

\* C12: every character of generate(n).password belongs to the union of the
\* four class alphabets (26 + 26 + 10 + 10 characters).
C12_GenerateAlphabetClosure ==
    /\ Cardinality(Alphabet) = 72
    /\ Generated => InAlphabet(result.password)
    /\ pc \in { "seed", "fill", "scan", "shuffle", "check" } => InAlphabet(chars)

\* a generated password of the longest length, with characters of the
\* fallback scan in it
C12_Witness ==
    /\ Generated
    /\ Len(result.password) = 40
    /\ InAlphabet(result.password)
    /\ tries = LastTry + 1

----------------------------------------------------------------------------
(* Termination of generate *)

\* an upper bound of the steps one attempt has left: the seeds, two steps
\* (draws, scan) per open slot, the end of the fill loop, the shuffle and
\* the validation
StepsLeft ==
    CASE pc = "seed"    -> (5 - ci) + 2 * (length - 4) + 3
      [] pc = "fill"    -> 2 * (length - pi) + 3
      [] pc = "scan"    -> 2 * (length - pi) + 2
      [] pc = "shuffle" -> 2
      [] pc = "check"   -> 1
      [] OTHER          -> 0

\* an upper bound of the steps generate has left
Variant ==
    CASE pc = "generate"  -> 10 * 100 + 2
      [] pc = "attempt"   -> (10 - attempt) * 100 + 1
      [] pc = "generated" -> 0
      [] OTHER            -> (9 - attempt) * 100 + 2 + StepsLeft

\* C13: generate terminates (every step takes it closer to its return, and
\* only the return ends it); it starts at most 10 attempts; a slot makes at
\* most 100 random draws and then at most one scan of the pool; the
\* candidate of an attempt is returned iff it validates, and
\* {password: '', valid: false} is returned exactly when 10 attempts failed.
C13_GenerateTerminates ==
    /\ [](/\ attempt <= 10
          /\ pc \in { "seed", "fill", "scan", "shuffle", "check" } => attempt < 10
          /\ tries <= 100
          /\ pc = "scan" => tries = 100
          /\ Variant >= 0
          /\ Generated => /\ (result = GenerateGiveUp) <=> (attempt = 10)
                          /\ result.valid <=> (attempt < 10)
                          /\ result.valid =>
                                 result.password = chars /\ validate(chars).overall)
    /\ [][ /\ Variant' < Variant
           /\ pc = "fill" /\ pc' = "fill" => (tries' < 100 /\ pi' = pi + 1)
           /\ pc = "scan" => (pc' = "fill" /\ pi' = pi + 1 /\ tries' = tries)
           /\ pc = "check" =>
                  IF validate(chars).overall
                  THEN pc' = "generated" /\ attempt' = attempt
                  ELSE pc' = "attempt" /\ attempt' = attempt + 1
         ]_vars

\* generate has returned, its last slot filled by the scan after 100
\* rejected draws
C13_Witness ==
    /\ Generated
    /\ result.valid
    /\ tries = 100
    /\ attempt = 0

----------------------------------------------------------------------------
(* Repair of short passwords *)

\* C14: for every input shorter than 8 characters, fix returns valid = true
\* and a fixed string of at least 8 characters.
C14_ShortPasswordRepaired ==
    (Fixed /\ Len(password) < 8) => (result.valid /\ Len(result.fixed) >= 8)

----------------------------------------------------------------------------
(* Phase 1 of tryFix *)

\* the alphabet of a class
AlphabetOf(cls) ==
    CASE cls = "uppercase" -> 65 .. 90
      [] cls = "lowercase" -> 97 .. 122
      [] cls = "digit"     -> 48 .. 57
      [] cls = "special"   -> { 35, 63, 33, 64, 36, 37, 94, 38, 42, 45 }
      [] OTHER             -> { }

\* the class whose alphabet holds ch, "unknown" if none does
ClassByAlphabet(ch) ==
    IF \E cls \in { "uppercase", "lowercase", "digit", "special" } : ch \in AlphabetOf(cls)
    THEN CHOOSE cls \in { "uppercase", "lowercase", "digit", "special" } : ch \in AlphabetOf(cls)
    ELSE "unknown"

\* a step of phase 1 that substitutes a character
Phase1Substitutes == pc = "replace" /\ Len(changes') = Len(changes) + 1

\* C15: when phase 1 replaces a character of class C (one of the four), the
\* substitute is of class C whenever some character of C occurs fewer than 2
\* times, and of another class only when every character of C occurs 2 times
\* or more; in both cases the substitute occurred fewer than 2 times (in the
\* working string and in the counts) when it was chosen.
C15_SameClassSubstitution ==
    [][ Phase1Substitutes =>
          LET c    == changes'[Len(changes')]
              cls  == ClassByAlphabet(c.from)
              free == { ch \in AlphabetOf(cls) : Occ(chars, ch) < 2 }
          IN  cls # "unknown" =>
                /\ c.from = Head(violators).ch
                /\ free # { } => c.to \in free
                /\ free = { } => c.to \in Alphabet \ AlphabetOf(cls)
                /\ Occ(chars, c.to) < 2
                /\ counts[c.to] < 2
      ]_vars

\* phase 1 has replaced an uppercase character by a character of another
\* class (every uppercase character being used twice), and another uppercase
\* character by an uppercase one
C15_Witness ==
    /\ pc = "replace"
    /\ Len(changes) > 0
    /\ LET c == changes[Len(changes)]
       IN  /\ ClassByAlphabet(c.from) = "uppercase"
           /\ ClassByAlphabet(c.to) \notin { "uppercase", "unknown" }

\* an input that breaks rule 6 only: rules 1-5 hold, no character is outside
\* the alphabets, and some character occurs more than 2 times
PureRepeatViolation(s) ==
    /\ \A i \in 1 .. 5 : validate(s).rules[i].pass
    /\ InAlphabet(s)
    /\ \E ch \in Range(s) : Occ(s, ch) > 2

\* the changes are the excess occurrences: for every character, as many
\* changes with that `from` as it has occurrences beyond 2, and no others
ChangesAreTheExcess(s, chg) ==
    /\ \A ch \in Range(s) :
          Cardinality({ i \in 1 .. Len(chg) : chg[i].from = ch })
              = Max(0, Occ(s, ch) - 2)
    /\ \A i \in 1 .. Len(chg) : chg[i].from \in Range(s)
    /\ Len(chg) = Len(s) - Cardinality(Range(s)) * 2
                    + Cardinality({ ch \in Range(s) : Occ(s, ch) = 1 })

\* C16 as stated: for every input that breaks rule 6 only, fix records
\* exactly count(c) - 2 changes per violating character c, each with from = c.
C16_MinimalChanges ==
    (Fixed /\ PureRepeatViolation(password)) =>
        ChangesAreTheExcess(password, result.changes)

\* C16 as amended: the same for inputs of at most 144 characters.
C16_MinimalChangesUpTo144 ==
    (Fixed /\ PureRepeatViolation(password) /\ Len(password) <= MaxRepeat * PoolSize) =>
        ChangesAreTheExcess(password, result.changes)

\* "####Xy1#abcd": '#' occurs 5 times, 3 changes
C16_Witness ==
    /\ Fixed
    /\ PureRepeatViolation(password)
    /\ Occ(password, 35) = 5
    /\ Len(result.changes) = 3
    /\ result.valid

----------------------------------------------------------------------------
(* The content script and field values *)

\* the values of the fields, attached or not
ValuesOf(f) == [ e \in Elements |-> f[e].value ]

\* C17: the content script reads a field's value only while handling a
\* 'read' message and writes one only while handling a 'fill' message;
\* 'detect' messages, focus tracking and indicator insertion (and messages
\* of any other type) neither read nor change any field value.
C17_ValuesTouchedOnlyByReadAndFill ==
    [][ /\ access'.op = "read" => access'.by = "read"
        /\ access'.op = "write" => access'.by = "fill"
        /\ access'.by \in { "detect", "focusin", "observer", "ping" } =>
              /\ access'.op = "none"
              /\ ValuesOf(fields') = ValuesOf(fields)
              /\ response' = response \/ "password" \notin DOMAIN response'
        /\ ValuesOf(fields') # ValuesOf(fields) =>
              \/ access'.by = "page"
              \/ access'.by = "fill" /\ access'.op = "write"
        /\ access'.by = "read" => ValuesOf(fields') = ValuesOf(fields)
      ]_vars

\* a 'detect' message was answered on a page whose two fields hold a typed
\* and a filled value
C17_Witness ==
    /\ pc = "page"
    /\ access.by = "detect"
    /\ response.kind = "detect" /\ response.count = 2
    /\ \E e \in Elements : fields[e].value \in FillPasswords
    /\ \E e \in Elements : fields[e].value = << 115 >>

----------------------------------------------------------------------------
(* The counts and the classes during a fix attempt *)

\* a fix attempt is under way (its working copies exist)
InAttempt == pc \in { "phase1", "replace", "phase2", "phase3", "phase4", "return" }

\* C18: at every point of a fix attempt, for every input including the empty
\* string, the counts map gives every character its number of occurrences in
\* the working string.
C18_CountsInLockStep ==
    InAttempt => \A ch \in Universe : counts[ch] = Occ(chars, ch)

\* C19: when phase 2 of a fix attempt has finished, each of the four classes
\* has at least one representative in the working string, for every input.
C19_ClassesCoveredAfterPhase2 ==
    pc = "phase3" =>
        \A cls \in { "uppercase", "lowercase", "digit", "special" } :
            \E i \in 1 .. Len(chars) : chars[i] \in AlphabetOf(cls)

----------------------------------------------------------------------------
(* Exhaustion of the substitutes *)

\* the next step of the attempt needs a substitute character: phase 1 for an
\* excess occurrence, phase 2 for a missing class, phase 3 for a missing
\* position, phase 4 for an unknown character
NeedsSubstitute ==
    \/ pc = "replace" /\ Len(indices) > 0 /\ replaced < Head(violators).excess
    \/ pc = "phase2" /\ ci <= Len(classChecks) /\ ~ClassTest(classChecks[ci], chars)
    \/ pc = "phase3" /\ Len(chars) < 8
    \/ pc = "phase4" /\ \E i \in pi .. (Len(chars) - 1) : chars[i + 1] \notin Alphabet

\* no character of the four alphabets has count < 2
Exhausted == \A ch \in Alphabet : counts[ch] >= 2

\* C20: whenever a phase of a fix attempt needs a substitute and no character
\* of the four alphabets has count < 2, the attempt makes no edit there (and
\* goes on), and the result of the attempt has valid = false.
C20_ExhaustionSignalled ==
    [][ (NeedsSubstitute /\ Exhausted) =>
          /\ chars' = chars
          /\ changes' = changes
          /\ counts' = counts
          /\ pc' \in { "replace", "phase2", "phase3", "phase4" }
          /\ ~FixResult(password, chars, changes).valid
      ]_vars

----------------------------------------------------------------------------
(* The change list of fix *)

\* one change applied as a step of an edit script: an append ('' as `from`)
\* must be at the end of the string, a substitution at a position that holds
\* `from`; `ok` tells whether every change so far could be applied
ApplyChange(st, c) ==
    IF ~st.ok THEN st
    ELSE IF c.from = EmptyString
    THEN IF c.index = Len(st.s)
         THEN [ ok |-> TRUE, s |-> Append(st.s, c.to) ]
         ELSE [ ok |-> FALSE, s |-> st.s ]
    ELSE IF c.index \in 0 .. (Len(st.s) - 1) /\ st.s[c.index + 1] = c.from
         THEN [ ok |-> TRUE, s |-> [ st.s EXCEPT ![c.index + 1] = c.to ] ]
         ELSE [ ok |-> FALSE, s |-> st.s ]

\* the first n changes applied in order to s
RECURSIVE ApplyChanges(_, _, _)
ApplyChanges(s, chg, n) ==
    IF n = 0 THEN [ ok |-> TRUE, s |-> s ]
    ELSE ApplyChange(ApplyChanges(s, chg, n - 1), chg[n])

\* C21: the change list is a faithful edit script, for every input including
\* the empty string: each change is at an index of the working string and
\* its `from` is the character held there just before (or it is an append
\* at the end, with '' as `from`), and the changes applied in order to the
\* original give the working string, at the end `fixed`.
C21_ChangesAreAnEditScript ==
    /\ InAttempt =>
          ApplyChanges(password, changes, Len(changes)) = [ ok |-> TRUE, s |-> chars ]
    /\ Fixed =>
          ApplyChanges(result.original, result.changes, Len(result.changes))
              = [ ok |-> TRUE, s |-> result.fixed ]

----------------------------------------------------------------------------
(* Phase 2 of tryFix: the position overwritten *)

\* the classes in the order phase 2 checks them
RequiredClasses == << "uppercase", "lowercase", "digit", "special" >>

\* the number of characters of s that belong to the alphabet of cls
Representatives(s, cls) == Cardinality({ i \in 1 .. Len(s) : s[i] \in AlphabetOf(cls) })

\* the largest element of a non-empty set of integers
Largest(S) == CHOOSE x \in S : \A y \in S : y <= x

\* the index (from 0) the claim gives for the overwrite of phase 2
ExpectedPosition(s) ==
    LET unknown == { i \in 0 .. (Len(s) - 1) : s[i + 1] \notin Alphabet }
        most    == Largest({ Representatives(s, RequiredClasses[k]) : k \in 1 .. 4 })
        ofMost  == { i \in 0 .. (Len(s) - 1) :
                       /\ s[i + 1] \in Alphabet
                       /\ Representatives(s, ClassByAlphabet(s[i + 1])) = most }
    IN  IF unknown # { } THEN Largest(unknown)
        ELSE IF most > 1 THEN Largest(ofMost)
        ELSE Len(s) - 1

\* a step of phase 2 that records a change
Phase2Overwrites == pc = "phase2" /\ Len(changes') = Len(changes) + 1

\* C22: when phase 2 finds a class missing, the position it overwrites is
\* (a) the rightmost one holding an unknown character, if there is one; else
\* (b) the rightmost one whose character's class has the largest number of
\* representatives, if that number is greater than 1; else (c) the last
\* position, index length - 1 (on an empty working string this is -1 and no
\* position is overwritten).
C22_Phase2Position ==
    [][ Phase2Overwrites =>
          LET c == changes'[Len(changes')]
              T == RequiredClasses[ci]
          IN  /\ Representatives(chars, T) = 0
              /\ c.to \in AlphabetOf(T)
              /\ c.index = ExpectedPosition(chars)
              /\ chars' = IF Len(chars) = 0 THEN chars
                          ELSE [ chars EXCEPT ![c.index + 1] = c.to ]
      ]_vars

\* "abcabcab" after phase 2: the three missing classes were written over
\* lowercase characters, the first at the rightmost position
C22_Witness ==
    /\ pc = "phase3"
    /\ password = << 97, 98, 99, 97, 98, 99, 97, 98 >>
    /\ \E k \in 1 .. Len(changes) :
          /\ changes[k].to \in AlphabetOf("uppercase")
          /\ changes[k].index = 7
          /\ changes[k].from \in AlphabetOf("lowercase")
    /\ \A cls \in { "uppercase", "lowercase", "digit", "special" } :
          Representatives(chars, cls) >= 1

----------------------------------------------------------------------------
(* Phase 1 of tryFix: the positions substituted *)

\* the indices (from 0) at which s holds ch
Positions(s, ch) == { i \in 0 .. (Len(s) - 1) : s[i + 1] = ch }

\* the changes whose `from` is ch, in recorded order
ChangesFrom(chg, ch) ==
    LET IsFrom(c) == c.from = ch
    IN  SelectSeq(chg, IsFrom)

\* phase 1 is running or has just ended: every change so far is its own
InPhase1 == pc \in { "phase1", "replace" } \/ (pc = "phase2" /\ ci = 1)

\* C23: for every character c that occurs n > 2 times in the input, the
\* positions phase 1 substitutes are rightmost positions of c in the input,
\* taken right to left: the k-th change of c is at the k-th position of c
\* from the right; there are never more than n - 2 of them, and exactly
\* n - 2 when phase 1 has ended (a substitute being available: inputs of at
\* most 144 characters); the two leftmost occurrences of c stay.
C23_Phase1Rightmost ==
    InPhase1 =>
        /\ \A k \in 1 .. Len(changes) : Occ(password, changes[k].from) > 2
        /\ \A ch \in Range(password) :
              Occ(password, ch) > 2 =>
                LET cf  == ChangesFrom(changes, ch)
                    pos == Positions(password, ch)
                IN  /\ Len(cf) <= Occ(password, ch) - 2
                    /\ \A k \in 1 .. Len(cf) :
                          /\ cf[k].index \in pos
                          /\ Cardinality({ p \in pos : p > cf[k].index }) = k - 1
                    /\ \A p \in pos :
                          Cardinality({ q \in pos : q < p }) < 2 => chars[p + 1] = ch
                    /\ (pc = "phase2" /\ Len(password) <= MaxRepeat * PoolSize) =>
                          Len(cf) = Occ(password, ch) - 2

\* "####Xy1#abcd" at the end of phase 1: '#' replaced at 7, 3 and 2, in
\* that order
C23_Witness ==
    /\ pc = "phase2" /\ ci = 1
    /\ Occ(password, 35) = 5
    /\ Len(changes) = 3
    /\ changes[1].index = 7 /\ changes[2].index = 3 /\ changes[3].index = 2
    /\ chars[1] = 35 /\ chars[2] = 35

----------------------------------------------------------------------------
(* The fill of generate *)

\* the pool in its order: uppercase, lowercase, digits, specials
PoolInOrder ==
    [ i \in 1 .. 26 |-> 64 + i ] \o [ i \in 1 .. 26 |-> 96 + i ]
        \o [ i \in 1 .. 10 |-> 47 + i ]
        \o << 35, 63, 33, 64, 36, 37, 94, 38, 42, 45 >>

\* the first character of the pool, in its order, that s holds fewer than 2
\* times
FirstFree(s) ==
    LET free == { k \in 1 .. Len(PoolInOrder) : Occ(s, PoolInOrder[k]) < 2 }
    IN  PoolInOrder[CHOOSE k \in free : \A j \in free : k <= j]

\* C24: in every generate attempt the four seeds come one from each class
\* (uppercase, lowercase, digit, special, in that order); every later slot
\* adds exactly one character, which had a running count < 2 when added: an
\* accepted draw (one of at most 100), else the first character in pool
\* order with count < 2; no character's count ever exceeds 2, and the counts
\* are the occurrences.
C24_FillInvariant ==
    /\ [](pc \in { "seed", "fill", "scan", "shuffle", "check" } =>
            /\ \A ch \in Universe : counts[ch] = Occ(chars, ch) /\ counts[ch] <= 2
            /\ Len(chars) >= 4 =>
                  \A k \in 1 .. 4 :
                      pc \in { "seed", "fill", "scan" } =>
                          chars[k] \in AlphabetOf(RequiredClasses[k])
            /\ pc \in { "fill", "scan" } => Len(chars) = pi
            /\ pc \in { "shuffle", "check" } => Len(chars) = length)
    /\ [][ /\ pc = "seed" =>
                /\ Len(chars) = ci - 1
                /\ \E ch \in AlphabetOf(RequiredClasses[ci]) : chars' = Append(chars, ch)
           /\ (pc = "fill" /\ pc' = "fill") =>
                /\ tries' < 100
                /\ \E ch \in Alphabet :
                      Occ(chars, ch) < 2 /\ chars' = Append(chars, ch)
           /\ (pc = "fill" /\ pc' = "scan") => (tries' = 100 /\ chars' = chars)
           /\ pc = "scan" => chars' = Append(chars, FirstFree(chars))
           /\ pc = "shuffle" =>
                \A ch \in Universe : Occ(chars', ch) = Occ(chars, ch)
         ]_vars

\* a slot was just filled by the scan: 'B', the first character in pool
\* order used fewer than 2 times, 'A' being used twice
C24_Witness ==
    /\ pc = "fill"
    /\ tries = 100
    /\ Len(chars) > 4
    /\ chars[Len(chars)] = 66
    /\ Occ(chars, 65) = 2

----------------------------------------------------------------------------
(* The length of the repaired password *)

\* the changes that append: they replace no character
Appends(chg) == SelectSeq(chg, LAMBDA c : c.from = EmptyString)

\* C25: fix never shortens and pads only to 8: the repaired password has
\* max(number of characters of the input, 8) characters; an input of 8 or
\* more characters keeps its length and records no append change.
C25_LengthIsMaxOfInputAndEight ==
    Fixed =>
        /\ Len(result.fixed) = Max(Len(password), MinLength)
        /\ Len(password) >= MinLength => Len(Appends(result.changes)) = 0
        /\ Len(password) < MinLength =>
              Len(Appends(result.changes)) = MinLength - Len(password)

\* "Aa0" was padded with 5 appended characters to 8
C25_Witness ==
    /\ Fixed
    /\ Len(password) = 3
    /\ Len(result.fixed) = 8
    /\ Len(Appends(result.changes)) = 5

----------------------------------------------------------------------------
(* The first attempt of fix *)

\* the inputs of 4 to 100 characters
FourToHundred == Len(password) >= 4 /\ Len(password) <= 100

\* C26: for every input of 4 to 100 characters, whatever its characters and
\* whatever the random choices, every fix attempt returns valid = true, so
\* fix returns after its first attempt.
C26_FirstAttemptValid ==
    FourToHundred =>
        /\ attempt = 0
        /\ pc = "return" => FixResult(password, chars, changes).valid
        /\ Fixed => result.valid /\ validate(result.fixed).overall

\* "aaaa" (one class, a violator, too short) repaired by the first attempt
C26_Witness ==
    /\ Fixed
    /\ password = << 97, 97, 97, 97 >>
    /\ attempt = 0
    /\ result.valid
    /\ Len(result.fixed) = 8

----------------------------------------------------------------------------
(* The first attempt of generate *)

\* C27: generate never needs a retry: for every requested length, the
\* candidate of the first attempt passes validation whatever the draws and
\* the shuffle, so no second attempt starts and the empty result
\* {password: '', valid: false} is never returned.
C27_GenerateNeverRetries ==
    /\ pc \in { "clamp", "attempt", "seed", "fill", "scan", "shuffle", "check",
                "generated" } => attempt = 0
    /\ pc = "check" => validate(chars).overall
    /\ Generated => /\ result # GenerateGiveUp
                    /\ result.valid
                    /\ Len(result.password) > 0

\* the first candidate of 40 characters, built with a draw or a shuffle
\* that differs from the default, is about to be validated and passes
C27_Witness ==
    /\ pc = "check"
    /\ attempt = 0
    /\ Len(chars) = 40
    /\ varied = MaxVaried
    /\ validate(chars).overall

----------------------------------------------------------------------------
(* What fix leaves alone *)

\* the indices the changes name
ChangedIndices(chg) == { chg[k].index : k \in 1 .. Len(chg) }

\* C28: every position of the input whose index appears in no change holds
\* in the repaired password the character it held in the input, and
\* `original` is the input.
C28_UnchangedPositionsKept ==
    Fixed =>
        /\ result.original = password
        /\ \A i \in 0 .. Len(password) - 1 :
              i \notin ChangedIndices(result.changes) =>
                  /\ i + 1 <= Len(result.fixed)
                  /\ result.fixed[i + 1] = password[i + 1]

\* "Ab1#~xyz": the '~' at index 4 was replaced, the seven other characters
\* are those of the input
C28_Witness ==
    /\ Fixed
    /\ password = << 65, 98, 49, 35, 126, 120, 121, 122 >>
    /\ ChangedIndices(result.changes) = { 4 }
    /\ result.fixed[5] # 126
    /\ \A i \in { 1, 2, 3, 4, 6, 7, 8 } : result.fixed[i] = password[i]

----------------------------------------------------------------------------
(* The field a message acts on *)

\* the attached password inputs
AttachedFields(f) == { e \in Elements : f[e].attached }

\* the field a message has to act on: the most recently focused password
\* field if it is attached, else the first attached one, else none
ExpectedTarget(f, active) ==
    IF active \in Elements /\ f[active].attached
    THEN active
    ELSE IF AttachedFields(f) = { }
         THEN Null
         ELSE CHOOSE e \in AttachedFields(f) : \A d \in AttachedFields(f) : e <= d

\* C29: activePasswordField is the most recently focused password field
\* (a focusin on a password input sets it, nothing else changes it); a
\* 'read' or a 'fill' acts on it if it is attached, else on the first
\* password field of the document; with no password field 'read' answers ''
\* and 'fill' answers success = false and writes nothing.
C29_TargetFieldSelection ==
    [][ LET t == ExpectedTarget(fields, activePasswordField)
        IN  /\ access'.by = "focusin" =>
                  activePasswordField' =
                      IF access'.target \in Elements
                      THEN access'.target
                      ELSE activePasswordField
            /\ access'.by # "focusin" => activePasswordField' = activePasswordField
            /\ access'.by = "read" =>
                  /\ fields' = fields
                  /\ response'.password = IF t = Null THEN << >> ELSE fields[t].value
            /\ access'.by = "fill" =>
                  IF t = Null
                  THEN fields' = fields /\ response'.success = FALSE
                  ELSE /\ response'.success = TRUE
                       /\ fields'[t].value \in FillPasswords
                       /\ \A e \in Elements \ { t } : fields'[e] = fields[e]
                       /\ fields' = [ fields EXCEPT ![t].value = fields'[t].value ]
      ]_vars

\* a 'fill' was written into the second field, the one last focused, while
\* the first field, attached too, kept its typed value
C29_Witness ==
    /\ pc = "page"
    /\ access.by = "fill" /\ access.op = "write"
    /\ response.kind = "fill" /\ response.success
    /\ activePasswordField = 2
    /\ fields[1].attached /\ fields[2].attached
    /\ fields[2].value \in FillPasswords
    /\ fields[1].value = << 115 >>

----------------------------------------------------------------------------
(* The indicators *)

\* C30: after initialisation and any number of observer callbacks every
\* password field has at most one indicator (one exactly when it is
\* marked); after a callback every attached field has its indicator, and
\* the callback that answers the script's own insertion inserts nothing and
\* leaves nothing pending, so the loop stops.
C30_IndicatorsQuiesce ==
    /\ [](pc = "page" =>
            /\ \A e \in Elements :
                  /\ fields[e].indicators <= 1
                  /\ fields[e].marked <=> fields[e].indicators = 1
            /\ access.by \in { "init", "observer" } =>
                  \A e \in Elements : fields[e].attached => fields[e].indicators = 1
            /\ access.by = "init" => ~mutations)
    /\ [][ (access.by = "observer" /\ access'.by = "observer") =>
              /\ mutations
              /\ fields' = fields
              /\ ~mutations'
         ]_vars

\* a callback found every field attached and with its one indicator,
\* inserted nothing and left nothing pending
C30_Witness ==
    /\ pc = "page"
    /\ access.by = "observer"
    /\ ~mutations
    /\ \A e \in Elements : fields[e].attached /\ fields[e].indicators = 1

====
